---- MODULE Spec2Model ----
(***************************************************************************)
(* Group expense splitting: the split calculator (app/routes/expenses.py), *)
(* the settlement engine (app/utils/settlement.py) and the request         *)
(* handlers that feed them (expenses, payments, group membership).         *)
(*                                                                         *)
(* Money is counted in cents: every amount the application reads back from *)
(* a Numeric(15, 2) column has exactly two decimals.  Percentages are      *)
(* counted in hundredths of a percent, the resolution of Numeric(5, 2).    *)
(***************************************************************************)
EXTENDS Integers, Sequences, FiniteSets, TLC

\* ------------------------------------------------------------------ bounds
NumUsers == 3
MaxBalance == 3
MaxExpenses == 1
MaxPayments == 3

Users == 1..NumUsers

\* ------------------------------------------------------------- arithmetic
\* The literal 0.01 of the tolerance tests, in cents (and in hundredths of a
\* percent for the percentage test).  The code compares an exact Decimal with
\* the binary64 literal 0.01 = 0.01000000000000000020816..., which lies
\* strictly between 1 and 2 of these units: see LtFloatTol and GtFloatTol.
TOLERANCE == 1

\* 100 percent in hundredths of a percent.
HUNDRED == 10000

Abs(x) == IF x < 0 THEN -x ELSE x

Min(a, b) == IF a < b THEN a ELSE b

\* Decimal x < 0.01 (float literal): true of 1 cent, because the binary64
\* literal is slightly larger than the decimal 0.01.
LtFloatTol(x) == x <= TOLERANCE

\* The comparison without its tolerance: x > 0.
MutGtZero(x) == x > 0

\* Decimal x > 0.01 (float literal): false of 1 cent, true from 2 cents on.
GtFloatTol(x) == x > TOLERANCE

RECURSIVE SumAmounts(_)
SumAmounts(s) == IF s = <<>> THEN 0 ELSE Head(s).amount + SumAmounts(Tail(s))

\* ------------------------------------------------- settlement optimisation
\* A balance mapping is a Python dict: a sequence of entries with distinct
\* user ids, in insertion (= iteration) order.
HasKey(d, u) == \E k \in 1..Len(d) : d[k].user_id = u

\* An unstable descending sort: x goes in front of the elements of equal
\* amount.
MutInsertDescBeforeTies(sorted, x) ==
    LET before == SelectSeq(sorted, LAMBDA y : y.amount > x.amount)
        after == SelectSeq(sorted, LAMBDA y : y.amount <= x.amount)
    IN before \o <<x>> \o after

\* list.sort(key=amount, reverse=True) is stable: among equal amounts the
\* original order is kept.  InsertDesc puts x behind every element whose
\* amount is at least x.amount.
InsertDesc(sorted, x) ==
    LET before == SelectSeq(sorted, LAMBDA y : y.amount >= x.amount)
        after == SelectSeq(sorted, LAMBDA y : y.amount < x.amount)
    IN before \o <<x>> \o after

RECURSIVE SortDescFrom(_, _)
SortDescFrom(sorted, rest) ==
    IF rest = <<>> THEN sorted
    ELSE SortDescFrom(InsertDesc(sorted, Head(rest)), Tail(rest))

SortDesc(s) == SortDescFrom(<<>>, s)

\* settlement.py 63-67: debtors carry abs(balance), creditors the balance;
\* a zero balance goes to neither list.
\* The partition with <= 0: a zero balance becomes a debtor.
RECURSIVE MutDebtorsOfNonPositive(_)
MutDebtorsOfNonPositive(d) ==
    IF d = <<>> THEN <<>>
    ELSE (IF Head(d).balance <= 0
          THEN <<[user_id |-> Head(d).user_id, amount |-> Abs(Head(d).balance)]>>
          ELSE <<>>) \o MutDebtorsOfNonPositive(Tail(d))

RECURSIVE DebtorsOf(_)
DebtorsOf(d) ==
    IF d = <<>> THEN <<>>
    ELSE (IF Head(d).balance < 0
          THEN <<[user_id |-> Head(d).user_id, amount |-> Abs(Head(d).balance)]>>
          ELSE <<>>) \o DebtorsOf(Tail(d))

\* No partition by sign: every non-zero balance becomes a creditor.
RECURSIVE MutCreditorsOfNonZero(_)
MutCreditorsOfNonZero(d) ==
    IF d = <<>> THEN <<>>
    ELSE (IF Head(d).balance # 0
          THEN <<[user_id |-> Head(d).user_id, amount |-> Abs(Head(d).balance)]>>
          ELSE <<>>) \o MutCreditorsOfNonZero(Tail(d))

\* The partition with a plain else: a zero balance becomes a creditor.
RECURSIVE MutCreditorsOfElse(_)
MutCreditorsOfElse(d) ==
    IF d = <<>> THEN <<>>
    ELSE (IF Head(d).balance >= 0
          THEN <<[user_id |-> Head(d).user_id, amount |-> Head(d).balance]>>
          ELSE <<>>) \o MutCreditorsOfElse(Tail(d))

RECURSIVE CreditorsOf(_)
CreditorsOf(d) ==
    IF d = <<>> THEN <<>>
    ELSE (IF Head(d).balance > 0
          THEN <<[user_id |-> Head(d).user_id, amount |-> Head(d).balance]>>
          ELSE <<>>) \o CreditorsOf(Tail(d))

\* The state of the matching loop: the two sorted lists with their remaining
\* amounts, the cursors i and j (0-based, as in the code) and the output.
MatchStart(d) ==
    [debtors |-> SortDesc(DebtorsOf(d)),
     creditors |-> SortDesc(CreditorsOf(d)),
     i |-> 0, j |-> 0, settlements |-> <<>>]

MatchRunning(m) == m.i < Len(m.debtors) /\ m.j < Len(m.creditors)

\* A cursor that moves on only below zero: a settled party stays current.
MutCursorAdvancesBelowZero(remaining) == remaining < 0

\* A cursor moves on when the remaining amount is < 0.01 (float literal).
CursorAdvances(remaining) == LtFloatTol(remaining)

\* An iteration that settles the larger of the two amounts.
MutMatchStepMax(m) ==
    LET deb == m.debtors[m.i + 1]
        cre == m.creditors[m.j + 1]
        settlement_amount == IF deb.amount >= cre.amount THEN deb.amount ELSE cre.amount
        debtors2 == [m.debtors EXCEPT ![m.i + 1].amount = deb.amount - settlement_amount]
        creditors2 == [m.creditors EXCEPT ![m.j + 1].amount = cre.amount - settlement_amount]
    IN [debtors |-> debtors2,
        creditors |-> creditors2,
        i |-> IF CursorAdvances(debtors2[m.i + 1].amount) THEN m.i + 1 ELSE m.i,
        j |-> IF CursorAdvances(creditors2[m.j + 1].amount) THEN m.j + 1 ELSE m.j,
        settlements |-> Append(m.settlements,
                               [payer_id |-> deb.user_id, payee_id |-> cre.user_id,
                                amount |-> settlement_amount])]

\* One iteration of the while loop, settlement.py 77-93.
MatchStep(m) ==
    LET deb == m.debtors[m.i + 1]
        cre == m.creditors[m.j + 1]
        settlement_amount == Min(deb.amount, cre.amount)
        debtors2 == [m.debtors EXCEPT ![m.i + 1].amount = deb.amount - settlement_amount]
        creditors2 == [m.creditors EXCEPT ![m.j + 1].amount = cre.amount - settlement_amount]
    IN [debtors |-> debtors2,
        creditors |-> creditors2,
        i |-> IF CursorAdvances(debtors2[m.i + 1].amount) THEN m.i + 1 ELSE m.i,
        j |-> IF CursorAdvances(creditors2[m.j + 1].amount) THEN m.j + 1 ELSE m.j,
        settlements |-> Append(m.settlements,
                               [payer_id |-> deb.user_id, payee_id |-> cre.user_id,
                                amount |-> settlement_amount])]

RECURSIVE MatchLoop(_)
MatchLoop(m) == IF MatchRunning(m) THEN MatchLoop(MatchStep(m)) ELSE m

\* optimize_settlements(balances): the list of (payer, payee, amount).
optimize_settlements(balances) == MatchLoop(MatchStart(balances)).settlements

\* ------------------------------------------------------------------- state
VARIABLES
    members,      \* GroupMember rows of the group: user id -> role or "none"
    expenses,     \* Expense rows with their ExpenseSplit rows, by expense id
    payments,     \* Payment rows, by payment id
    resp,         \* the response to the last request
    balances_arg, \* optimize_settlements: the argument of the call
    match,        \* optimize_settlements: debtors, creditors, i, j, settlements
    opt_pc,       \* optimize_settlements: position of the call
    req,          \* a single call under study: the function and its arguments
    ret,          \* what that call returned
    plan,         \* the suggestions of a settlement plan not yet recorded
    plan_pc,      \* position in carrying out the plan
    session,      \* a request in progress: its uncommitted database session
    reader,       \* a calculate_balances in progress: the rows it has loaded
    inflight      \* membership requests in progress, by requesting user

vars == <<members, expenses, payments, resp, balances_arg, match, opt_pc,
          req, ret, plan, plan_pc, session, reader, inflight>>

app_vars == <<members, expenses, payments, resp>>

opt_vars == <<balances_arg, match, opt_pc>>

call_vars == <<req, ret>>

plan_vars == <<plan, plan_pc>>

conc_vars == <<session, reader, inflight>>

NoExpense == [status |-> "none"]

NoPayment == [status |-> "none"]

NoResponse == [status |-> 0, error |-> ""]

NoMatch == [debtors |-> <<>>, creditors |-> <<>>, i |-> 0, j |-> 0, settlements |-> <<>>]

\* create_group: the creator becomes the only member, as admin.
InitApp ==
    /\ members = [u \in Users |-> IF u = 1 THEN "admin" ELSE "none"]
    /\ expenses = [e \in 1..MaxExpenses |-> NoExpense]
    /\ payments = [p \in 1..MaxPayments |-> NoPayment]
    /\ resp = NoResponse

InitOptIdle ==
    /\ balances_arg = <<>>
    /\ match = NoMatch
    /\ opt_pc = "idle"

NoRequest == [fn |-> "none"]

NoReturn == [returned |-> FALSE]

InitCallIdle ==
    /\ req = NoRequest
    /\ ret = NoReturn

InitPlanIdle ==
    /\ plan = <<>>
    /\ plan_pc = "idle"

NoSession == [pc |-> "none"]

NoReader == [pc |-> "none"]

NoInflight == [u \in Users |-> [pc |-> "none"]]

InitConcIdle ==
    /\ session = NoSession
    /\ reader = NoReader
    /\ inflight = NoInflight

\* ---------------------------------------------------------- request inputs
\* A key of the request JSON that may be missing.
Absent == [present |-> FALSE]

Given(v) == [present |-> TRUE, value |-> v]

\* data.get(key, default)
GetOr(opt, default) == IF opt.present THEN opt.value ELSE default

\* Expense amounts of the requests, in cents.
Amounts == {3, 20000}

\* 'other' stands for any split_type string that is none of the three.
SplitTypes == {"equal", "unequal", "custom", "other"}

\* Items of a 'splits' list: {user_id, percentage} for an unequal split,
\* {user_id, amount} for a custom one.  Percentages are in hundredths of a
\* percent.
Pct(u, p) == [user_id |-> u, percentage |-> Given(p), amount |-> Absent]

Amt(u, a) == [user_id |-> u, percentage |-> Absent, amount |-> Given(a)]

\* 100 %, 99.99 % (within the tolerance), 99.98 % (outside), and a list that
\* names one user twice.
PercentageLists ==
    {<<Pct(1, 5000), Pct(2, 5000)>>,
     <<Pct(1, 5000), Pct(2, 4999)>>,
     <<Pct(2, 4999), Pct(3, 4999)>>,
     <<Pct(1, 5000), Pct(1, 5000)>>}

\* Amounts that sum to 3 cents, to 4 cents, to 1 cent, and a list that names
\* one user twice.
AmountLists ==
    {<<Amt(1, 1), Amt(2, 2)>>,
     <<Amt(2, 2), Amt(3, 2)>>,
     <<Amt(3, 1)>>,
     <<Amt(1, 1), Amt(1, 2)>>}

\* The 'split_type' and 'splits' keys of a request body.
Body(split_type_in, splits_in) == [split_type |-> split_type_in, splits |-> splits_in]

RequestBodies ==
    {Body(Absent, Absent)}
    \cup {Body(Given(t), Absent) : t \in SplitTypes}
    \cup {Body(Given("unequal"), Given(l)) : l \in PercentageLists}
    \cup {Body(Given("custom"), Given(l)) : l \in AmountLists}
    \cup {Body(Given("custom"), Given(<<Pct(1, 5000), Pct(2, 5000)>>)),
          Body(Absent, Given(<<Amt(1, 1), Amt(2, 2)>>))}

PaymentAmounts == {0, 1, 2}

\* --------------------------------------------------------- split calculator
\* An exact quotient num / den.  Decimal carries 28 significant digits, so a
\* quotient the code computes differs from the exact one by less than 1e-27
\* of its value: far below the half cent that decides the stored value.
Ratio(num, den) == [num |-> num, den |-> den]

\* What a Numeric(_, 2) column gives back for the value num / den (den > 0):
\* the nearest multiple of its unit.  On an exact tie the result depends on
\* the database and, for SQLite, on the binary64 image of the value
\* ("%.2f" % 0.015 is 0.01, "%.2f" % 0.025 is 0.03): tie_up is that choice.
RoundNumeric(q, tie_up) ==
    LET whole == q.num \div q.den
        rest == q.num % q.den
    IN IF 2 * rest > q.den THEN whole + 1
       ELSE IF 2 * rest < q.den THEN whole
       ELSE IF tie_up THEN whole + 1 ELSE whole

RECURSIVE SumKey(_, _)
\* sum(Decimal(str(s.get(key, 0))) for s in split_data)
SumKey(split_data, key) ==
    IF split_data = <<>> THEN 0
    ELSE GetOr(Head(split_data)[key], 0) + SumKey(Tail(split_data), key)

Raise(kind, message) == [raised |-> kind, message |-> message, splits |-> <<>>]

Return(splits) == [raised |-> "", message |-> "", splits |-> splits]

\* The equal split with floor division (//) in place of Decimal division.
MutEqualSplitsFloorDiv(total_amount, member_ids) ==
    [k \in 1..Len(member_ids) |->
        [user_id |-> member_ids[k],
         amount |-> Ratio(total_amount \div Len(member_ids), 1),
         percentage |-> Ratio(HUNDRED \div Len(member_ids), 1)]]

\* expenses.py 18-30
EqualSplits(total_amount, member_ids) ==
    [k \in 1..Len(member_ids) |->
        [user_id |-> member_ids[k],
         amount |-> Ratio(total_amount, Len(member_ids)),
         percentage |-> Ratio(HUNDRED, Len(member_ids))]]

\* expenses.py 41-51
UnequalSplits(total_amount, split_data) ==
    [k \in 1..Len(split_data) |->
        [user_id |-> split_data[k].user_id,
         amount |-> Ratio(total_amount * split_data[k].percentage.value, HUNDRED),
         percentage |-> Ratio(split_data[k].percentage.value, 1)]]

\* expenses.py 62-72
CustomSplits(total_amount, split_data) ==
    [k \in 1..Len(split_data) |->
        [user_id |-> split_data[k].user_id,
         amount |-> Ratio(split_data[k].amount.value, 1),
         percentage |-> Ratio(split_data[k].amount.value * HUNDRED, total_amount)]]

\* calculate_splits(expense, split_data, split_type), expenses.py 13-74.
\* split_data is data.get('splits'): Absent stands for None.  The result is
\* the list of splits or the exception raised: ValueError, KeyError, or the
\* ArithmeticError of a Decimal division by zero (decimal.DivisionByZero,
\* or decimal.InvalidOperation for 0 / 0).
calculate_splits(total_amount, member_ids, split_data, split_type) ==
    CASE split_type = "equal" ->
            IF Len(member_ids) = 0
            THEN Raise("ArithmeticError", "")
            ELSE Return(EqualSplits(total_amount, member_ids))
      [] split_type = "unequal" ->
            IF ~split_data.present \/ split_data.value = <<>>
            THEN Raise("ValueError", "Split data required for unequal split")
            ELSE IF GtFloatTol(Abs(SumKey(split_data.value, "percentage") - HUNDRED))
            THEN Raise("ValueError", "Percentages must add up to 100")
            ELSE IF \E k \in 1..Len(split_data.value) : ~split_data.value[k].percentage.present
            THEN Raise("KeyError", "")
            ELSE Return(UnequalSplits(total_amount, split_data.value))
      [] split_type = "custom" ->
            IF ~split_data.present \/ split_data.value = <<>>
            THEN Raise("ValueError", "Split data required for custom split")
            ELSE IF GtFloatTol(Abs(SumKey(split_data.value, "amount") - total_amount))
            THEN Raise("ValueError", "Split amounts must equal total expense amount")
            ELSE IF \E k \in 1..Len(split_data.value) : ~split_data.value[k].amount.present
            THEN Raise("KeyError", "")
            ELSE IF total_amount = 0
            THEN Raise("ArithmeticError", "")
            ELSE Return(CustomSplits(total_amount, split_data.value))
      [] OTHER -> Return(<<>>)

\* The ExpenseSplit rows as they are read back after the commit: amount is
\* Numeric(15, 2), percentage Numeric(5, 2) (models/expense.py 70-71).
StoredSplits(splits, tie_up) ==
    [k \in 1..Len(splits) |->
        [user_id |-> splits[k].user_id,
         amount |-> RoundNumeric(splits[k].amount, tie_up),
         percentage |-> RoundNumeric(splits[k].percentage, tie_up)]]

\* The ways the ties of one commit can fall: one way when no value is a tie.
IsTie(q) == 2 * (q.num % q.den) = q.den

TieOutcomes(splits) ==
    IF \E k \in 1..Len(splits) : IsTie(splits[k].amount) \/ IsTie(splits[k].percentage)
    THEN BOOLEAN ELSE {FALSE}

\* UniqueConstraint('expense_id', 'user_id'), models/expense.py 77-79.
unique_expense_user_split(splits) ==
    \A a, b \in 1..Len(splits) : splits[a].user_id = splits[b].user_id => a = b

\* [m.user_id for m in expense.group.members]: the membership rows of the
\* group, listed by user id.
RECURSIVE AscendingFrom(_, _)
AscendingFrom(set, from) ==
    IF from > NumUsers THEN <<>>
    ELSE (IF from \in set THEN <<from>> ELSE <<>>) \o AscendingFrom(set, from + 1)

member_ids == AscendingFrom({u \in Users : members[u] # "none"}, 1)

\* ---------------------------------------------------------------- handlers
\* The HTTP status of the response and, for a request that ended in an
\* exception, the kind of the exception.
Response(status, error) == [status |-> status, error |-> error]

\* The id the database gives the next row: one more than the largest in use.
NextId(table) ==
    IF \A k \in DOMAIN table : table[k].status = "none" THEN 1
    ELSE 1 + CHOOSE k \in DOMAIN table :
                 /\ table[k].status # "none"
                 /\ \A l \in DOMAIN table : table[l].status # "none" => l <= k

\* Every new expense is approved at once.
MutInitialStatusApproved(role) == "approved"

\* expenses.py 120: 'approved' if membership.role == 'admin' else 'pending'.
initial_status(role) == IF role = "admin" THEN "approved" ELSE "pending"

\* POST /api/expenses, expenses.py 77-162.
create_expense(user_id, amount, paid_by_id, split_type_in, splits_in) ==
    LET id == NextId(expenses)
        split_type == GetOr(split_type_in, "equal")
        status == initial_status(members[user_id])
        calc == calculate_splits(amount, member_ids, splits_in, split_type)
    IN
    /\ id <= MaxExpenses
    /\ UNCHANGED <<members, payments>>
    /\ IF members[user_id] = "none"
       THEN /\ resp' = Response(403, "")
            /\ UNCHANGED expenses
       ELSE IF members[paid_by_id] = "none"
       THEN /\ resp' = Response(400, "")
            /\ UNCHANGED expenses
       ELSE IF calc.raised = "ValueError"
       THEN \* except ValueError: rollback, 400
            /\ resp' = Response(400, "ValueError")
            /\ UNCHANGED expenses
       ELSE IF calc.raised # "" \/ ~unique_expense_user_split(calc.splits)
       THEN \* except Exception: rollback, 500
            /\ resp' = Response(500, IF calc.raised # "" THEN calc.raised ELSE "IntegrityError")
            /\ UNCHANGED expenses
       ELSE /\ \E tie_up \in TieOutcomes(calc.splits) :
                 expenses' = [expenses EXCEPT ![id] =
                                [status |-> status,
                                 amount |-> amount,
                                 paid_by_id |-> paid_by_id,
                                 created_by_id |-> user_id,
                                 split_type |-> split_type,
                                 splits |-> StoredSplits(calc.splits, tie_up)]]
            /\ resp' = Response(201, "")

\* The part of update_expense that replaces the splits, expenses.py 271-283.
\* data.get('splits') is None when the request has no 'splits' key.
Resplit(expense, amount, member_list, split_type_in, splits_in) ==
    calculate_splits(amount, member_list, splits_in, GetOr(split_type_in, expense.split_type))

\* PUT /api/expenses/<id>, expenses.py 227-297.
update_expense(user_id, expense_id, amount_in, split_type_in, splits_in) ==
    LET expense == expenses[expense_id]
        is_admin == members[user_id] = "admin"
        is_creator == expense.created_by_id = user_id
        amount == GetOr(amount_in, expense.amount)
        resplit == splits_in.present \/ split_type_in.present
        calc == Resplit(expense, amount, member_ids, split_type_in, splits_in)
    IN
    /\ UNCHANGED <<members, payments>>
    /\ IF expense.status = "none"
       THEN /\ resp' = Response(404, "")
            /\ UNCHANGED expenses
       ELSE IF members[user_id] = "none"
       THEN /\ resp' = Response(403, "")
            /\ UNCHANGED expenses
       ELSE IF ~is_admin /\ ~is_creator
       THEN /\ resp' = Response(403, "")
            /\ UNCHANGED expenses
       ELSE IF ~is_admin /\ expense.status # "pending"
       THEN /\ resp' = Response(400, "")
            /\ UNCHANGED expenses
       ELSE IF ~resplit
       THEN /\ expenses' = [expenses EXCEPT ![expense_id].amount = amount]
            /\ resp' = Response(200, "")
       ELSE IF calc.raised # ""
       THEN \* calculate_splits raises outside the try block: the request
            \* ends in an unhandled exception and nothing is committed
            /\ resp' = Response(500, calc.raised)
            /\ UNCHANGED expenses
       ELSE IF ~unique_expense_user_split(calc.splits)
       THEN \* except Exception: rollback, 500
            /\ resp' = Response(500, "IntegrityError")
            /\ UNCHANGED expenses
       ELSE /\ \E tie_up \in TieOutcomes(calc.splits) :
                 expenses' = [expenses EXCEPT ![expense_id] =
                                [expense EXCEPT
                                    !.amount = amount,
                                    !.split_type = GetOr(split_type_in, expense.split_type),
                                    !.splits = StoredSplits(calc.splits, tie_up)]]
            /\ resp' = Response(200, "")

\* DELETE /api/expenses/<id>, expenses.py 300-335.  The splits go with the
\* expense (cascade='all, delete-orphan').
delete_expense(user_id, expense_id) ==
    LET expense == expenses[expense_id]
        is_admin == members[user_id] = "admin"
        is_creator == expense.created_by_id = user_id
    IN
    /\ UNCHANGED <<members, payments>>
    /\ IF expense.status = "none"
       THEN /\ resp' = Response(404, "")
            /\ UNCHANGED expenses
       ELSE IF members[user_id] = "none"
       THEN /\ resp' = Response(403, "")
            /\ UNCHANGED expenses
       ELSE IF ~is_admin /\ ~is_creator
       THEN /\ resp' = Response(403, "")
            /\ UNCHANGED expenses
       ELSE IF ~is_admin /\ expense.status # "pending"
       THEN /\ resp' = Response(400, "")
            /\ UNCHANGED expenses
       ELSE /\ expenses' = [expenses EXCEPT ![expense_id] = NoExpense]
            /\ resp' = Response(200, "")

\* The decision without the check that the expense is pending.
MutDecideExpenseAnyStatus(user_id, expense_id, new_status) ==
    LET expense == expenses[expense_id]
    IN
    /\ UNCHANGED <<members, payments>>
    /\ IF expense.status = "none"
       THEN /\ resp' = Response(404, "")
            /\ UNCHANGED expenses
       ELSE IF members[user_id] # "admin"
       THEN /\ resp' = Response(403, "")
            /\ UNCHANGED expenses
       ELSE /\ expenses' = [expenses EXCEPT ![expense_id].status = new_status]
            /\ resp' = Response(200, "")

\* approve_expense and reject_expense, expenses.py 338-413: the same checks,
\* new_status is 'approved' or 'rejected'.
decide_expense(user_id, expense_id, new_status) ==
    LET expense == expenses[expense_id]
    IN
    /\ UNCHANGED <<members, payments>>
    /\ IF expense.status = "none"
       THEN /\ resp' = Response(404, "")
            /\ UNCHANGED expenses
       ELSE IF members[user_id] # "admin"
       THEN /\ resp' = Response(403, "")
            /\ UNCHANGED expenses
       ELSE IF expense.status # "pending"
       THEN /\ resp' = Response(400, "")
            /\ UNCHANGED expenses
       ELSE /\ expenses' = [expenses EXCEPT ![expense_id].status = new_status]
            /\ resp' = Response(200, "")

approve_expense(user_id, expense_id) ==
    decide_expense(user_id, expense_id, "approved")

reject_expense(user_id, expense_id) ==
    decide_expense(user_id, expense_id, "rejected")

\* POST /api/payments, payments.py 101-166.
create_payment(user_id, payee_id, amount) ==
    LET id == NextId(payments)
    IN
    /\ id <= MaxPayments
    /\ UNCHANGED <<members, expenses>>
    /\ IF members[user_id] = "none"
       THEN /\ resp' = Response(403, "")
            /\ UNCHANGED payments
       ELSE IF members[payee_id] = "none"
       THEN /\ resp' = Response(400, "")
            /\ UNCHANGED payments
       ELSE IF user_id = payee_id
       THEN /\ resp' = Response(400, "")
            /\ UNCHANGED payments
       ELSE IF amount <= 0
       THEN /\ resp' = Response(400, "")
            /\ UNCHANGED payments
       ELSE /\ payments' = [payments EXCEPT ![id] =
                              [status |-> "pending",
                               payer_id |-> user_id,
                               payee_id |-> payee_id,
                               amount |-> amount]]
            /\ resp' = Response(201, "")

\* The decision without the check that the requester is an admin.
MutDecidePaymentAnyRequester(user_id, payment_id, new_status) ==
    LET payment == payments[payment_id]
    IN
    /\ UNCHANGED <<members, expenses>>
    /\ IF payment.status = "none"
       THEN /\ resp' = Response(404, "")
            /\ UNCHANGED payments
       ELSE IF payment.status # "pending"
       THEN /\ resp' = Response(400, "")
            /\ UNCHANGED payments
       ELSE /\ payments' = [payments EXCEPT ![payment_id].status = new_status]
            /\ resp' = Response(200, "")

\* approve_payment and reject_payment, payments.py 243-318: the same checks,
\* new_status is 'completed' or 'failed'.
decide_payment(user_id, payment_id, new_status) ==
    LET payment == payments[payment_id]
    IN
    /\ UNCHANGED <<members, expenses>>
    /\ IF payment.status = "none"
       THEN /\ resp' = Response(404, "")
            /\ UNCHANGED payments
       ELSE IF members[user_id] # "admin"
       THEN /\ resp' = Response(403, "")
            /\ UNCHANGED payments
       ELSE IF payment.status # "pending"
       THEN /\ resp' = Response(400, "")
            /\ UNCHANGED payments
       ELSE /\ payments' = [payments EXCEPT ![payment_id].status = new_status]
            /\ resp' = Response(200, "")

approve_payment(user_id, payment_id) ==
    decide_payment(user_id, payment_id, "completed")

reject_payment(user_id, payment_id) ==
    decide_payment(user_id, payment_id, "failed")

\* DELETE /api/payments/<id>, payments.py 321-356.
delete_payment(user_id, payment_id) ==
    LET payment == payments[payment_id]
        is_admin == members[user_id] = "admin"
        is_payer == payment.payer_id = user_id
    IN
    /\ UNCHANGED <<members, expenses>>
    /\ IF payment.status = "none"
       THEN /\ resp' = Response(404, "")
            /\ UNCHANGED payments
       ELSE IF members[user_id] = "none"
       THEN /\ resp' = Response(403, "")
            /\ UNCHANGED payments
       ELSE IF ~is_admin /\ ~is_payer
       THEN /\ resp' = Response(403, "")
            /\ UNCHANGED payments
       ELSE IF payment.status # "pending"
       THEN /\ resp' = Response(400, "")
            /\ UNCHANGED payments
       ELSE /\ payments' = [payments EXCEPT ![payment_id] = NoPayment]
            /\ resp' = Response(200, "")

\* POST /api/payments/vnpay-create, payments.py 359-414: the amount is the
\* only input that is checked.
create_vnpay_payment(user_id, payee_id, amount) ==
    LET id == NextId(payments)
    IN
    /\ id <= MaxPayments
    /\ UNCHANGED <<members, expenses>>
    /\ IF amount <= 0
       THEN /\ resp' = Response(400, "")
            /\ UNCHANGED payments
       ELSE /\ payments' = [payments EXCEPT ![id] =
                              [status |-> "pending",
                               payer_id |-> user_id,
                               payee_id |-> payee_id,
                               amount |-> amount]]
            /\ resp' = Response(201, "")

\* GET /api/payments/vnpay-return, payments.py 417-501: a public callback;
\* vnp_ResponseCode '00' completes the payment, any other code fails it,
\* whatever its status was.  Every outcome is answered with an HTML page.
vnpay_return(payment_id, response_code) ==
    /\ UNCHANGED <<members, expenses>>
    /\ resp' = Response(200, "")
    /\ IF payments[payment_id].status = "none"
       THEN UNCHANGED payments
       ELSE payments' = [payments EXCEPT ![payment_id].status =
                            IF response_code = "00" THEN "completed" ELSE "failed"]

\* execute_recurring_expenses for one due template, scheduler.py 27-73: the
\* expense is stored approved; splits are made for split_type 'equal' only,
\* one per member.
execute_recurring_expenses(recurring) ==
    LET id == NextId(expenses)
        splits == IF recurring.split_type = "equal" /\ member_ids # <<>>
                  THEN EqualSplits(recurring.amount, member_ids)
                  ELSE <<>>
    IN
    /\ id <= MaxExpenses
    /\ UNCHANGED <<members, payments, resp>>
    /\ \E tie_up \in TieOutcomes(splits) :
          expenses' = [expenses EXCEPT ![id] =
                         [status |-> "approved",
                          amount |-> recurring.amount,
                          paid_by_id |-> recurring.paid_by_id,
                          created_by_id |-> recurring.created_by_id,
                          split_type |-> recurring.split_type,
                          splits |-> StoredSplits(splits, tie_up)]]

\* POST /api/payment-gateway/create-payment-url, payment_gateway.py 12-66:
\* for the payer of the payment; with a URL made, the payment is set back to
\* 'pending' whatever its status was.  payment_method 'other' stands for a
\* method create_payment_url answers with an error.
create_gateway_payment_url(user_id, payment_id, payment_method) ==
    /\ UNCHANGED <<members, expenses>>
    /\ IF payments[payment_id].status = "none"
       THEN /\ resp' = Response(404, "")
            /\ UNCHANGED payments
       ELSE IF payments[payment_id].payer_id # user_id
       THEN /\ resp' = Response(403, "")
            /\ UNCHANGED payments
       ELSE IF payment_method # "vnpay"
       THEN /\ resp' = Response(500, "")
            /\ UNCHANGED payments
       ELSE /\ payments' = [payments EXCEPT ![payment_id].status = "pending"]
            /\ resp' = Response(200, "")

\* POST /api/groups/<id>/members, groups.py 171-225; 'client' is stored as
\* 'member'.
add_member(user_id, new_user_id, role_in) ==
    LET role == IF role_in = "client" THEN "member" ELSE role_in
    IN
    /\ UNCHANGED <<expenses, payments>>
    /\ IF members[user_id] # "admin"
       THEN /\ resp' = Response(403, "")
            /\ UNCHANGED members
       ELSE IF members[new_user_id] # "none"
       THEN /\ resp' = Response(409, "")
            /\ UNCHANGED members
       ELSE IF role \notin {"admin", "member"}
       THEN /\ resp' = Response(400, "")
            /\ UNCHANGED members
       ELSE /\ members' = [members EXCEPT ![new_user_id] = role]
            /\ resp' = Response(201, "")

Roles == {"admin", "member", "client", "owner"}

\* The requests of the group's users, with every input they can carry.
RequestCreateExpense ==
    /\ \E user_id \in Users, amount \in Amounts, paid_by_id \in Users,
          body \in RequestBodies :
          create_expense(user_id, amount, paid_by_id, body.split_type, body.splits)
    /\ UNCHANGED <<conc_vars, opt_vars, call_vars, plan_vars>>

RequestUpdateExpense ==
    /\ \E user_id \in Users, expense_id \in 1..MaxExpenses,
          amount_in \in {Absent} \cup {Given(a) : a \in Amounts},
          body \in RequestBodies :
          update_expense(user_id, expense_id, amount_in, body.split_type, body.splits)
    /\ UNCHANGED <<conc_vars, opt_vars, call_vars, plan_vars>>

RequestDeleteExpense ==
    /\ \E user_id \in Users, expense_id \in 1..MaxExpenses :
          delete_expense(user_id, expense_id)
    /\ UNCHANGED <<conc_vars, opt_vars, call_vars, plan_vars>>

RequestApproveExpense ==
    /\ \E user_id \in Users, expense_id \in 1..MaxExpenses :
          approve_expense(user_id, expense_id)
    /\ UNCHANGED <<conc_vars, opt_vars, call_vars, plan_vars>>

RequestRejectExpense ==
    /\ \E user_id \in Users, expense_id \in 1..MaxExpenses :
          reject_expense(user_id, expense_id)
    /\ UNCHANGED <<conc_vars, opt_vars, call_vars, plan_vars>>

RequestAddMember ==
    /\ \E user_id \in Users, new_user_id \in Users, role_in \in Roles :
          add_member(user_id, new_user_id, role_in)
    /\ UNCHANGED <<conc_vars, opt_vars, call_vars, plan_vars>>

Init == InitApp /\ InitOptIdle /\ InitCallIdle /\ InitPlanIdle /\ InitConcIdle

Next ==
    \/ RequestCreateExpense
    \/ RequestUpdateExpense
    \/ RequestDeleteExpense
    \/ RequestApproveExpense
    \/ RequestRejectExpense
    \/ RequestAddMember

Spec == Init /\ [][Next]_vars

\* -------------------------------------------------------- balance engine
\* balances[user_id] += delta on a defaultdict(Decimal): a new key goes to
\* the end of the iteration order.
AddTo(d, user_id, delta) ==
    IF HasKey(d, user_id)
    THEN [k \in 1..Len(d) |->
            IF d[k].user_id = user_id
            THEN [d[k] EXCEPT !.balance = d[k].balance + delta]
            ELSE d[k]]
    ELSE Append(d, [user_id |-> user_id, balance |-> delta])

RECURSIVE AddAll(_, _)
AddAll(d, postings) ==
    IF postings = <<>> THEN d
    ELSE AddAll(AddTo(d, Head(postings)[1], Head(postings)[2]), Tail(postings))

\* settlement.py 22-28: the payer gets +amount, every split user -amount.
ExpensePostings(expense) ==
    <<  <<expense.paid_by_id, expense.amount>>  >> \o
    [k \in 1..Len(expense.splits) |-> <<expense.splits[k].user_id, -expense.splits[k].amount>>]

\* settlement.py 36-40: the payer gets +amount, the payee -amount.
PaymentPostings(payment) ==
    << <<payment.payer_id, payment.amount>>, <<payment.payee_id, -payment.amount>> >>

\* The postings of every expense that is not rejected, pending ones included.
RECURSIVE MutPostingsNotRejected(_, _)
MutPostingsNotRejected(exps, id) ==
    IF id \notin DOMAIN exps THEN <<>>
    ELSE (IF exps[id].status \in {"approved", "pending"}
          THEN ExpensePostings(exps[id]) ELSE <<>>)
         \o MutPostingsNotRejected(exps, id + 1)

\* settlement.py 17-28: the approved expenses, in id order.
RECURSIVE ApprovedPostings(_, _)
ApprovedPostings(exps, id) ==
    IF id \notin DOMAIN exps THEN <<>>
    ELSE (IF exps[id].status = "approved" THEN ExpensePostings(exps[id]) ELSE <<>>)
         \o ApprovedPostings(exps, id + 1)

\* The postings of every payment that has not failed, pending ones included.
RECURSIVE MutPostingsNotFailed(_, _)
MutPostingsNotFailed(pays, id) ==
    IF id \notin DOMAIN pays THEN <<>>
    ELSE (IF pays[id].status \in {"completed", "pending"}
          THEN PaymentPostings(pays[id]) ELSE <<>>)
         \o MutPostingsNotFailed(pays, id + 1)

\* settlement.py 31-40: the completed payments, in id order.
RECURSIVE CompletedPostings(_, _)
CompletedPostings(pays, id) ==
    IF id \notin DOMAIN pays THEN <<>>
    ELSE (IF pays[id].status = "completed" THEN PaymentPostings(pays[id]) ELSE <<>>)
         \o CompletedPostings(pays, id + 1)

\* settlement.py 14-40: the balances before the zero balances are removed.
aggregate_balances(exps, pays) ==
    AddAll(AddAll(<<>>, ApprovedPostings(exps, 1)), CompletedPostings(pays, 1))

\* Keeps every user whose balance is not exactly zero.
MutRemoveExactZero(d) == SelectSeq(d, LAMBDA entry : entry.balance # 0)

\* settlement.py 43: keep the users with abs(balance) > 0.01.
remove_zero_balances(d) == SelectSeq(d, LAMBDA entry : GtFloatTol(Abs(entry.balance)))

\* A mapping whose iteration order differs from one run to the next: the
\* second run of a request iterates it backwards.
MutCalculateBalancesByRun(exps, pays) ==
    LET d == remove_zero_balances(aggregate_balances(exps, pays))
    IN IF ret = NoReturn THEN d ELSE [k \in 1..Len(d) |-> d[Len(d) + 1 - k]]

\* calculate_balances(group_id), settlement.py 7-43.
calculate_balances(exps, pays) == remove_zero_balances(aggregate_balances(exps, pays))

\* float(v) of a Decimal with two decimals, read back as a Decimal through
\* str() or JSON: for amounts below 2^53 cents the two decimals survive.
FloatOfCents(cents) == cents

\* str(k) of an integer key.
str(k) == ToString(k)

\* calculate_settlements(group_id), settlement.py 98-120.
calculate_settlements(exps, pays) ==
    LET balances == calculate_balances(exps, pays)
        settlements == optimize_settlements(balances)
    IN [balances |-> [k \in 1..Len(balances) |->
                        [user_id |-> str(balances[k].user_id),
                         balance |-> FloatOfCents(balances[k].balance)]],
        settlements |-> [k \in 1..Len(settlements) |->
                           [payer_id |-> settlements[k].payer_id,
                            payee_id |-> settlements[k].payee_id,
                            amount |-> FloatOfCents(settlements[k].amount)]]]

\* balances.get(user_id_str, 0), settlement.py 137-138.
RECURSIVE DictGet(_, _, _)
DictGet(d, key, default) ==
    IF d = <<>> THEN default
    ELSE IF Head(d).user_id = key THEN Head(d).balance
    ELSE DictGet(Tail(d), key, default)

NoDebts == [owes |-> <<>>, owed |-> <<>>]

\* The loop with the payer kept as the counterparty of an entry the user owes.
RECURSIVE MutDebtsLoopPayerKept(_, _, _)
MutDebtsLoopPayerKept(settlements, user_id, acc) ==
    IF settlements = <<>> THEN acc
    ELSE LET settlement == Head(settlements)
         IN MutDebtsLoopPayerKept(Tail(settlements), user_id,
                IF settlement.payer_id = user_id
                THEN [acc EXCEPT !.owes = Append(@, [user_id |-> settlement.payer_id,
                                                     amount |-> settlement.amount])]
                ELSE IF settlement.payee_id = user_id
                THEN [acc EXCEPT !.owed = Append(@, [user_id |-> settlement.payer_id,
                                                     amount |-> settlement.amount])]
                ELSE acc)

\* settlement.py 143-153: the loop over the settlements.
RECURSIVE DebtsLoop(_, _, _)
DebtsLoop(settlements, user_id, acc) ==
    IF settlements = <<>> THEN acc
    ELSE LET settlement == Head(settlements)
         IN DebtsLoop(Tail(settlements), user_id,
                IF settlement.payer_id = user_id
                THEN [acc EXCEPT !.owes = Append(@, [user_id |-> settlement.payee_id,
                                                     amount |-> settlement.amount])]
                ELSE IF settlement.payee_id = user_id
                THEN [acc EXCEPT !.owed = Append(@, [user_id |-> settlement.payer_id,
                                                     amount |-> settlement.amount])]
                ELSE acc)

\* get_user_debts(user_id, group_id), settlement.py 123-159.
get_user_debts(user_id, exps, pays) ==
    LET settlements_data == calculate_settlements(exps, pays)
        net_balance == DictGet(settlements_data.balances, str(user_id), 0)
        lists == DebtsLoop(settlements_data.settlements, user_id, NoDebts)
    IN [net_balance |-> net_balance, owes |-> lists.owes, owed |-> lists.owed]

\* --------------------------------- optimize_settlements as a pure function
BalanceEntries == [user_id : Users, balance : (-MaxBalance)..MaxBalance]

DistinctUsers(d) == \A a, b \in 1..Len(d) : d[a].user_id = d[b].user_id => a = b

BalanceMappings ==
    UNION {{d \in [1..k -> BalanceEntries] : DistinctUsers(d)} : k \in 0..NumUsers}

InitOpt ==
    /\ InitApp
    /\ InitCallIdle
    /\ InitPlanIdle
    /\ InitConcIdle
    /\ balances_arg \in BalanceMappings
    /\ match = NoMatch
    /\ opt_pc = "call"

\* settlement.py 57-74: partition, sort, i, j = 0, 0.
OptEnter ==
    /\ opt_pc = "call"
    /\ match' = MatchStart(balances_arg)
    /\ opt_pc' = "loop"
    /\ UNCHANGED <<conc_vars, app_vars, call_vars, plan_vars, balances_arg>>

\* settlement.py 76-93: one iteration of the while loop.
OptIterate ==
    /\ opt_pc = "loop"
    /\ MatchRunning(match)
    /\ match' = MatchStep(match)
    /\ UNCHANGED <<conc_vars, app_vars, call_vars, plan_vars, balances_arg, opt_pc>>

\* settlement.py 76, 95: the loop condition fails, return settlements.
OptReturn ==
    /\ opt_pc = "loop"
    /\ ~MatchRunning(match)
    /\ opt_pc' = "done"
    /\ UNCHANGED <<conc_vars, app_vars, call_vars, plan_vars, balances_arg, match>>

NextOpt == OptEnter \/ OptIterate \/ OptReturn

SpecOpt == InitOpt /\ [][NextOpt]_vars

\* The call keeps running: no step of the sequential code is postponed
\* forever.
SpecOptFair == SpecOpt /\ WF_vars(NextOpt)

\* ------------------------------------------- single calls on drawn inputs
\* The totals of the calls: the amounts of the requests and a total of zero,
\* which create_expense accepts as well (it does not look at the amount).
CallAmounts == {0} \cup Amounts

CallPayloads ==
    {Absent, Given(<<>>)} \cup {Given(l) : l \in PercentageLists \cup AmountLists}

\* Every list of member ids a group can have, the empty one included.
MemberLists == {AscendingFrom(set, 1) : set \in SUBSET Users}

CalculateSplitsCalls ==
    [fn : {"calculate_splits"}, total_amount : CallAmounts, member_ids : MemberLists,
     split_data : CallPayloads, split_type : SplitTypes]

CreateExpenseRequests ==
    [fn : {"create_expense"}, user_id : Users, amount : CallAmounts, paid_by_id : Users,
     body : RequestBodies]

\* The templates POST /api/recurring stores (recurring.py 52-66): created
\* by an admin, split_type as given in the request.
RecurringTemplates ==
    [fn : {"execute_recurring_expenses"}, amount : Amounts, paid_by_id : Users,
     created_by_id : {1}, split_type : SplitTypes]

\* The memberships a group can reach from create_group through add_member.
Memberships == {m \in [Users -> {"admin", "member", "none"}] : m[1] = "admin"}

InitCall ==
    /\ members \in Memberships
    /\ expenses = [e \in 1..MaxExpenses |-> NoExpense]
    /\ payments = [p \in 1..MaxPayments |-> NoPayment]
    /\ resp = NoResponse
    /\ InitOptIdle
    /\ InitPlanIdle
    /\ InitConcIdle
    /\ req \in CalculateSplitsCalls \cup CreateExpenseRequests \cup RecurringTemplates
    /\ ret = NoReturn

\* calculate_splits applied to the arguments of the call.
CallCalculateSplits ==
    /\ req.fn = "calculate_splits"
    /\ ~ret.returned
    /\ ret' = [returned |-> TRUE,
               value |-> calculate_splits(req.total_amount, req.member_ids,
                                          req.split_data, req.split_type)]
    /\ UNCHANGED <<conc_vars, app_vars, opt_vars, plan_vars, req>>

\* The request handled by create_expense.
CallCreateExpense ==
    /\ req.fn = "create_expense"
    /\ ~ret.returned
    /\ create_expense(req.user_id, req.amount, req.paid_by_id,
                      req.body.split_type, req.body.splits)
    /\ ret' = [returned |-> TRUE, value |-> resp']
    /\ UNCHANGED <<conc_vars, opt_vars, plan_vars, req>>

\* The scheduler run for the template.
CallExecuteRecurring ==
    /\ req.fn = "execute_recurring_expenses"
    /\ ~ret.returned
    /\ execute_recurring_expenses(req)
    /\ ret' = [returned |-> TRUE, value |-> [executed |-> 1]]
    /\ UNCHANGED <<conc_vars, opt_vars, plan_vars, req>>

NextCall == CallCalculateSplits \/ CallCreateExpense \/ CallExecuteRecurring

SpecCalc == InitCall /\ [][NextCall]_vars

\* ------------------------------------------------------ the payment routes
\* The payments a run of the payment routes creates.
MaxPaymentRequests == 2

ResponseCodes == {"00", "24"}

\* A group of an admin and a member; the third user is not in the group.
InitPay ==
    /\ members = [u \in Users |-> IF u = 1 THEN "admin" ELSE IF u = 2 THEN "member" ELSE "none"]
    /\ expenses = [e \in 1..MaxExpenses |-> NoExpense]
    /\ payments = [p \in 1..MaxPayments |-> NoPayment]
    /\ resp = NoResponse
    /\ InitOptIdle
    /\ InitCallIdle
    /\ InitPlanIdle
    /\ InitConcIdle

RequestCreatePayment ==
    /\ NextId(payments) <= MaxPaymentRequests
    /\ \E user_id \in Users, payee_id \in Users, amount \in PaymentAmounts :
          create_payment(user_id, payee_id, amount)
    /\ UNCHANGED <<opt_vars, call_vars, plan_vars, conc_vars>>

RequestCreateVnpayPayment ==
    /\ NextId(payments) <= MaxPaymentRequests
    /\ \E user_id \in Users, payee_id \in Users, amount \in PaymentAmounts :
          create_vnpay_payment(user_id, payee_id, amount)
    /\ UNCHANGED <<opt_vars, call_vars, plan_vars, conc_vars>>

RequestApprovePayment ==
    /\ \E user_id \in Users, payment_id \in 1..MaxPayments :
          approve_payment(user_id, payment_id)
    /\ UNCHANGED <<opt_vars, call_vars, plan_vars, conc_vars>>

RequestRejectPayment ==
    /\ \E user_id \in Users, payment_id \in 1..MaxPayments :
          reject_payment(user_id, payment_id)
    /\ UNCHANGED <<opt_vars, call_vars, plan_vars, conc_vars>>

RequestDeletePayment ==
    /\ \E user_id \in Users, payment_id \in 1..MaxPayments :
          delete_payment(user_id, payment_id)
    /\ UNCHANGED <<opt_vars, call_vars, plan_vars, conc_vars>>

RequestVnpayReturn ==
    /\ \E payment_id \in 1..MaxPayments, response_code \in ResponseCodes :
          vnpay_return(payment_id, response_code)
    /\ UNCHANGED <<opt_vars, call_vars, plan_vars, conc_vars>>

RequestCreateGatewayPaymentUrl ==
    /\ \E user_id \in Users, payment_id \in 1..MaxPayments, payment_method \in {"vnpay", "other"} :
          create_gateway_payment_url(user_id, payment_id, payment_method)
    /\ UNCHANGED <<opt_vars, call_vars, plan_vars, conc_vars>>

NextPay ==
    \/ RequestCreatePayment
    \/ RequestCreateVnpayPayment
    \/ RequestApprovePayment
    \/ RequestRejectPayment
    \/ RequestDeletePayment
    \/ RequestVnpayReturn
    \/ RequestCreateGatewayPaymentUrl

SpecPay == InitPay /\ [][NextPay]_vars

\* ------------------------------------------- carrying out a settlement plan
\* The approved expenses a group of all users can hold whose stored splits
\* sum to the amount: what create_expense stores for an admin's request.
WellSplitExpenses ==
    {[status |-> "approved", amount |-> amount, paid_by_id |-> paid_by_id,
      created_by_id |-> 1, split_type |-> GetOr(body.split_type, "equal"),
      splits |-> StoredSplits(
                     calculate_splits(amount, AscendingFrom(Users, 1), body.splits,
                                      GetOr(body.split_type, "equal")).splits, tie_up)] :
        amount \in Amounts, paid_by_id \in Users, tie_up \in BOOLEAN,
        body \in {b \in RequestBodies : GetOr(b.split_type, "equal") # "other"}}

WellSplit(expense) ==
    /\ expense.splits # <<>>
    /\ unique_expense_user_split(expense.splits)
    /\ SumAmounts(expense.splits) = expense.amount

\* The completed payments already in the ledger.
CompletedPayments ==
    {[status |-> "completed", payer_id |-> payer_id, payee_id |-> payee_id,
      amount |-> amount] :
        payer_id \in Users, payee_id \in Users, amount \in PaymentAmounts}

InitLedger ==
    /\ members = [u \in Users |-> IF u = 1 THEN "admin" ELSE "member"]
    /\ expenses \in [1..MaxExpenses -> {NoExpense} \cup {e \in WellSplitExpenses : WellSplit(e)}]
    /\ payments \in {p \in [1..MaxPayments -> {NoPayment} \cup CompletedPayments] :
                        /\ \A k \in 2..MaxPayments : p[k] = NoPayment
                        /\ p[1] # NoPayment =>
                               p[1].payer_id # p[1].payee_id /\ p[1].amount > 0}
    /\ resp = NoResponse
    /\ InitOptIdle
    /\ InitCallIdle
    /\ InitConcIdle
    /\ plan = <<>>
    /\ plan_pc = "plan"

\* ------------------------------------------- the membership routes, in steps
\* The membership requests that can be in progress at once.
MaxInflight == 2

\* GroupMember.query.filter_by(group_id=group_id, role='admin').count()
admin_count(m) == Cardinality({u \in Users : m[u] = "admin"})

\* groups.py 246, 287, 329: admin_count <= 1.
last_admin(m) == admin_count(m) <= 1

Refuse(status) ==
    /\ resp' = Response(status, "")
    /\ UNCHANGED <<members, inflight>>

\* The request has passed its checks; the write and the commit are to come.
Proceed(u, fn, user_id, new_role) ==
    /\ inflight' = [inflight EXCEPT ![u] =
                       [pc |-> "commit", fn |-> fn, user_id |-> user_id,
                        role |-> members[user_id], new_role |-> new_role]]
    /\ UNCHANGED <<members, resp>>

CanBegin(u) ==
    /\ inflight[u].pc = "none"
    /\ Cardinality({v \in Users : inflight[v].pc # "none"}) < MaxInflight

\* DELETE /api/groups/<id>/members/<user_id>, groups.py 228-248: the checks.
remove_member(u, user_id) ==
    IF members[u] # "admin" THEN Refuse(403)
    ELSE IF members[user_id] = "none" THEN Refuse(404)
    ELSE IF members[user_id] = "admin" /\ last_admin(members) THEN Refuse(400)
    ELSE Proceed(u, "remove_member", user_id, "none")

\* PUT /api/groups/<id>/members/<user_id>/role, groups.py 260-290: the checks.
update_member_role(u, user_id, new_role) ==
    IF members[u] # "admin" THEN Refuse(403)
    ELSE IF members[user_id] = "none" THEN Refuse(404)
    ELSE IF new_role \notin {"admin", "member"} THEN Refuse(400)
    ELSE IF members[user_id] = "admin" /\ new_role = "member" /\ last_admin(members)
    THEN Refuse(400)
    ELSE Proceed(u, "update_member_role", user_id, new_role)

\* POST /api/groups/<id>/leave, groups.py 306-329: the checks.
leave_group(u) ==
    IF members[u] = "none" THEN Refuse(403)
    ELSE IF members[u] = "admin" /\ last_admin(members) THEN Refuse(400)
    ELSE Proceed(u, "leave_group", u, "none")

\* groups.py 249-257, 292-303, 331-338: the write and db.session.commit().
\* A DELETE of a row that is gone matches no row; an UPDATE of such a row
\* raises StaleDataError; a role assigned its loaded value writes nothing.
commit_membership(u) ==
    LET r == inflight[u]
    IN
    /\ r.pc = "commit"
    /\ inflight' = [inflight EXCEPT ![u] = [pc |-> "none"]]
    /\ IF r.fn \in {"remove_member", "leave_group"}
       THEN /\ members' = [members EXCEPT ![r.user_id] = "none"]
            /\ resp' = Response(200, "")
       ELSE IF r.new_role = r.role
       THEN /\ resp' = Response(200, "")
            /\ UNCHANGED members
       ELSE IF members[r.user_id] = "none"
       THEN /\ resp' = Response(500, "StaleDataError")
            /\ UNCHANGED members
       ELSE /\ members' = [members EXCEPT ![r.user_id] = r.new_role]
            /\ resp' = Response(200, "")

RoleInputs == {"admin", "member", "other"}

InitGroup ==
    /\ members \in Memberships
    /\ expenses = [e \in 1..MaxExpenses |-> NoExpense]
    /\ payments = [p \in 1..MaxPayments |-> NoPayment]
    /\ resp = NoResponse
    /\ InitOptIdle
    /\ InitCallIdle
    /\ InitPlanIdle
    /\ InitConcIdle

RequestRemoveMember ==
    /\ \E u \in Users, user_id \in Users : CanBegin(u) /\ remove_member(u, user_id)
    /\ UNCHANGED <<expenses, payments, opt_vars, call_vars, plan_vars, session, reader>>

RequestUpdateMemberRole ==
    /\ \E u \in Users, user_id \in Users, new_role \in RoleInputs :
          CanBegin(u) /\ update_member_role(u, user_id, new_role)
    /\ UNCHANGED <<expenses, payments, opt_vars, call_vars, plan_vars, session, reader>>

RequestLeaveGroup ==
    /\ \E u \in Users : CanBegin(u) /\ leave_group(u)
    /\ UNCHANGED <<expenses, payments, opt_vars, call_vars, plan_vars, session, reader>>

CommitMembership ==
    /\ \E u \in Users : commit_membership(u)
    /\ UNCHANGED <<expenses, payments, opt_vars, call_vars, plan_vars, session, reader>>

NextGroup ==
    \/ RequestRemoveMember
    \/ RequestUpdateMemberRole
    \/ RequestLeaveGroup
    \/ CommitMembership

SpecGroup == InitGroup /\ [][NextGroup]_vars

\* ------------------------------- an expense request and a concurrent reader
\* A read that sees the uncommitted work of the open transaction.
MutReadUncommitted(db, sess) ==
    IF sess.pc = "open"
    THEN [db EXCEPT ![sess.expense_id] = [sess.row EXCEPT !.splits = sess.added]]
    ELSE db

\* The rows a SELECT of another connection sees while a transaction is open:
\* with SQLite (config.py 12) the committed rows only.
ReadCommitted(db, sess) == db

\* What another connection sees of the expenses and their splits.
VisibleExpenses(db, sess) == ReadCommitted(db, sess)

RECURSIVE ApprovedIds(_, _)
ApprovedIds(exps, id) ==
    IF id \notin DOMAIN exps THEN <<>>
    ELSE (IF exps[id].status = "approved" THEN <<id>> ELSE <<>>) \o ApprovedIds(exps, id + 1)

\* The approved expenses already in the ledger, paid by the admin.
LedgerExpenses == {e \in WellSplitExpenses : WellSplit(e) /\ e.paid_by_id = 1}

InitConc ==
    /\ members = [u \in Users |-> IF u = 1 THEN "admin" ELSE "member"]
    /\ expenses \in [1..MaxExpenses -> {NoExpense} \cup LedgerExpenses]
    /\ payments = [p \in 1..MaxPayments |-> NoPayment]
    /\ resp = NoResponse
    /\ InitOptIdle
    /\ InitCallIdle
    /\ InitPlanIdle
    /\ InitConcIdle

\* update_expense by the admin, expenses.py 257-283: the UPDATE of the row
\* and the DELETE of the old splits are executed in the transaction, then
\* calculate_splits runs.
TxnBeginUpdate ==
    /\ session = NoSession
    /\ \E expense_id \in 1..MaxExpenses, amount_in \in {Absent} \cup {Given(a) : a \in Amounts},
          body \in {b \in RequestBodies : b.splits.present \/ b.split_type.present} :
          LET expense == expenses[expense_id]
              amount == GetOr(amount_in, expense.amount)
              calc == Resplit(expense, amount, member_ids, body.split_type, body.splits)
          IN /\ expense.status # "none"
             /\ \E tie_up \in TieOutcomes(calc.splits) :
                   session' = [pc |-> "open",
                               fn |-> "update_expense",
                               expense_id |-> expense_id,
                               row |-> [expense EXCEPT
                                           !.amount = amount,
                                           !.split_type = GetOr(body.split_type, expense.split_type),
                                           !.splits = <<>>],
                               old_splits |-> expense.splits,
                               to_add |-> IF calc.raised = ""
                                          THEN StoredSplits(calc.splits, tie_up) ELSE <<>>,
                               added |-> <<>>,
                               raised |-> calc.raised]
    /\ UNCHANGED <<app_vars, opt_vars, call_vars, plan_vars, reader, inflight>>

\* create_expense by the admin, expenses.py 118-141: the row is flushed,
\* then calculate_splits runs.
TxnBeginCreate ==
    /\ session = NoSession
    /\ NextId(expenses) <= MaxExpenses
    /\ \E amount \in Amounts, body \in RequestBodies :
          LET split_type == GetOr(body.split_type, "equal")
              calc == calculate_splits(amount, member_ids, body.splits, split_type)
          IN \E tie_up \in TieOutcomes(calc.splits) :
                session' = [pc |-> "open",
                            fn |-> "create_expense",
                            expense_id |-> NextId(expenses),
                            row |-> [status |-> "approved", amount |-> amount,
                                     paid_by_id |-> 1, created_by_id |-> 1,
                                     split_type |-> split_type, splits |-> <<>>],
                            old_splits |-> <<>>,
                            to_add |-> IF calc.raised = ""
                                       THEN StoredSplits(calc.splits, tie_up) ELSE <<>>,
                            added |-> <<>>,
                            raised |-> calc.raised]
    /\ UNCHANGED <<app_vars, opt_vars, call_vars, plan_vars, reader, inflight>>

\* db.session.add(split), expenses.py 138-139 and 279-280.
TxnAddSplit ==
    /\ session.pc = "open"
    /\ session.raised = ""
    /\ session.to_add # <<>>
    /\ session' = [session EXCEPT !.added = Append(@, Head(session.to_add)),
                                  !.to_add = Tail(@)]
    /\ UNCHANGED <<app_vars, opt_vars, call_vars, plan_vars, reader, inflight>>

\* db.session.commit(), expenses.py 147 and 285.
TxnCommit ==
    /\ session.pc = "open"
    /\ session.raised = ""
    /\ session.to_add = <<>>
    /\ unique_expense_user_split(session.added)
    /\ expenses' = [expenses EXCEPT ![session.expense_id] =
                       [session.row EXCEPT !.splits = session.added]]
    /\ session' = [session EXCEPT !.pc = "committed"]
    /\ resp' = Response(IF session.fn = "create_expense" THEN 201 ELSE 200, "")
    /\ UNCHANGED <<members, payments, opt_vars, call_vars, plan_vars, reader, inflight>>

\* The request fails (calculate_splits raises, or the commit violates the
\* unique constraint): the transaction is rolled back.
TxnRollback ==
    /\ session.pc = "open"
    /\ \/ session.raised # ""
       \/ session.to_add = <<>> /\ ~unique_expense_user_split(session.added)
    /\ session' = [session EXCEPT !.pc = "rolled back"]
    /\ resp' = Response(IF session.fn = "create_expense" /\ session.raised = "ValueError"
                        THEN 400 ELSE 500,
                        IF session.raised # "" THEN session.raised ELSE "IntegrityError")
    /\ UNCHANGED <<members, expenses, payments, opt_vars, call_vars, plan_vars, reader, inflight>>

\* calculate_balances of another request, settlement.py 17-20: the query
\* for the approved expenses.
ReadExpenses ==
    /\ reader = NoReader
    /\ reader' = [pc |-> "splits",
                  rows |-> ApprovedIds(VisibleExpenses(expenses, session), 1),
                  seen |-> <<>>]
    /\ UNCHANGED <<app_vars, opt_vars, call_vars, plan_vars, session, inflight>>

\* settlement.py 27: expense.splits of the next expense is loaded with a
\* query of its own.
ReadSplits ==
    /\ reader.pc = "splits"
    /\ reader.rows # <<>>
    /\ reader' = [reader EXCEPT
                      !.rows = Tail(@),
                      !.seen = Append(@, [expense_id |-> Head(reader.rows),
                                          splits |-> VisibleExpenses(expenses, session)
                                                         [Head(reader.rows)].splits])]
    /\ UNCHANGED <<app_vars, opt_vars, call_vars, plan_vars, session, inflight>>

\* settlement.py 31-43: the payments are read and the balances returned.
ReadReturn ==
    /\ reader.pc = "splits"
    /\ reader.rows = <<>>
    /\ reader' = [reader EXCEPT !.pc = "done"]
    /\ UNCHANGED <<app_vars, opt_vars, call_vars, plan_vars, session, inflight>>

NextConc ==
    \/ TxnBeginUpdate
    \/ TxnBeginCreate
    \/ TxnAddSplit
    \/ TxnCommit
    \/ TxnRollback
    \/ ReadExpenses
    \/ ReadSplits
    \/ ReadReturn

SpecConc == InitConc /\ [][NextConc]_vars

\* ------------------------------------------------ reading the engine twice
\* A ledger of approved expenses and a completed payment, not being settled.
InitDebts ==
    /\ members = [u \in Users |-> IF u = 1 THEN "admin" ELSE "member"]
    /\ expenses \in [1..MaxExpenses -> {NoExpense} \cup {e \in WellSplitExpenses : WellSplit(e)}]
    /\ payments \in {p \in [1..MaxPayments -> {NoPayment} \cup CompletedPayments] :
                        /\ \A k \in 2..MaxPayments : p[k] = NoPayment
                        /\ p[1] # NoPayment =>
                               p[1].payer_id # p[1].payee_id /\ p[1].amount > 0}
    /\ resp = NoResponse
    /\ InitOptIdle
    /\ InitCallIdle
    /\ InitPlanIdle
    /\ InitConcIdle

\* One run of the engine for a user: the balances, the suggestions and the
\* user's debts.
EngineRun(user_id) ==
    [balances |-> calculate_balances(expenses, payments),
     settlements |-> optimize_settlements(calculate_balances(expenses, payments)),
     debts |-> get_user_debts(user_id, expenses, payments)]

\* GET /api/groups/<id>/my-debts, payments.py 63-98, with the balances and
\* the suggestions of the same ledger.
CallGetUserDebts ==
    /\ req = NoRequest
    /\ \E user_id \in {u \in Users : members[u] # "none"} :
          /\ req' = [fn |-> "get_user_debts", user_id |-> user_id]
          /\ ret' = [returned |-> TRUE, runs |-> 1, first |-> EngineRun(user_id)]
    /\ UNCHANGED <<app_vars, opt_vars, plan_vars, conc_vars>>

\* The same request once more, nothing in between.
CallGetUserDebtsAgain ==
    /\ req # NoRequest
    /\ ret.runs = 1
    /\ ret' = [returned |-> TRUE, runs |-> 2, first |-> ret.first,
               again |-> EngineRun(req.user_id)]
    /\ UNCHANGED <<app_vars, opt_vars, plan_vars, conc_vars, req>>

NextDebts == CallGetUserDebts \/ CallGetUserDebtsAgain

SpecDebts == InitDebts /\ [][NextDebts]_vars

\* GET /api/settlements: the suggestions of calculate_settlements.
PlanSettlements ==
    /\ plan_pc = "plan"
    /\ plan' = calculate_settlements(expenses, payments).settlements
    /\ plan_pc' = "record"
    /\ UNCHANGED <<conc_vars, app_vars, opt_vars, call_vars>>

\* The payer of the next suggestion records it with create_payment.
RecordCreate ==
    /\ plan_pc = "record"
    /\ plan # <<>>
    /\ create_payment(Head(plan).payer_id, Head(plan).payee_id, Head(plan).amount)
    /\ plan_pc' = "approve"
    /\ UNCHANGED <<conc_vars, opt_vars, call_vars, plan>>

\* The admin completes the payment just recorded with approve_payment.
RecordApprove ==
    /\ plan_pc = "approve"
    /\ approve_payment(1, NextId(payments) - 1)
    /\ plan' = Tail(plan)
    /\ plan_pc' = "record"
    /\ UNCHANGED <<conc_vars, opt_vars, call_vars>>

\* Every suggestion of the plan is a completed payment.
PlanDone ==
    /\ plan_pc = "record"
    /\ plan = <<>>
    /\ plan_pc' = "done"
    /\ UNCHANGED <<conc_vars, app_vars, opt_vars, call_vars, plan>>

NextLedger == PlanSettlements \/ RecordCreate \/ RecordApprove \/ PlanDone

SpecLedger == InitLedger /\ [][NextLedger]_vars

\* ================================================================== claims
RECURSIVE SumBalances(_)
SumBalances(d) == IF d = <<>> THEN 0 ELSE Head(d).balance + SumBalances(Tail(d))

RECURSIVE SumPositive(_)
SumPositive(d) ==
    IF d = <<>> THEN 0
    ELSE (IF Head(d).balance > 0 THEN Head(d).balance ELSE 0) + SumPositive(Tail(d))

RECURSIVE SumNegativeAbs(_)
SumNegativeAbs(d) ==
    IF d = <<>> THEN 0
    ELSE (IF Head(d).balance < 0 THEN -Head(d).balance ELSE 0) + SumNegativeAbs(Tail(d))

NonZeroCount(d) == Cardinality({k \in 1..Len(d) : d[k].balance # 0})

RECURSIVE GCD(_, _)
GCD(a, b) == IF b = 0 THEN a ELSE GCD(b, a % b)

\* The value of a quotient in lowest terms (den > 0).
Reduced(q) ==
    LET g == GCD(Abs(q.num), q.den)
    IN [num |-> q.num \div g, den |-> q.den \div g]

SameValue(q, r) == Reduced(q) = Reduced(r)

Policies == {"equal", "unequal", "custom"}

\* The call under study has returned.
CalcReturned == req.fn = "calculate_splits" /\ ret.returned

CreateReturned == req.fn = "create_expense" /\ ret.returned

\* create_expense got as far as the split calculation.
CreateReachedSplits ==
    /\ CreateReturned
    /\ members[req.user_id] # "none"
    /\ members[req.paid_by_id] # "none"

NothingStored == \A e \in 1..MaxExpenses : expenses[e] = NoExpense

\* A payload that is a non-empty list of (user_id, key) pairs.
HasPairs(split_data, key) ==
    /\ split_data.present
    /\ split_data.value # <<>>
    /\ \A k \in 1..Len(split_data.value) : split_data.value[k][key].present

LedgerWellSplit ==
    \A e \in 1..MaxExpenses : expenses[e].status = "approved" => WellSplit(expenses[e])

\* C1: for every ledger whose approved expenses each have splits summing to
\* the expense amount, once every suggestion of calculate_settlements is
\* recorded as a completed payment (same payer, payee and amount),
\* calculate_balances returns the empty mapping and optimize_settlements
\* returns no further suggestion.
C1_PlanZeroesBalances ==
    (plan_pc = "done" /\ LedgerWellSplit) =>
        /\ calculate_balances(expenses, payments) = <<>>
        /\ optimize_settlements(calculate_balances(expenses, payments)) = <<>>

\* C2: settlement completeness.  For every balance mapping whose values sum
\* to zero, the amounts of the suggestions optimize_settlements returns sum
\* to the sum of the positive balances, which is the sum of the absolute
\* values of the negative balances.
C2_SettlementCompleteness ==
    (opt_pc = "done" /\ SumBalances(balances_arg) = 0)
        => /\ SumAmounts(match.settlements) = SumPositive(balances_arg)
           /\ SumPositive(balances_arg) = SumNegativeAbs(balances_arg)

\* C3: zero-sum balance invariant.  In every state the expense handlers
\* reach, with every approved expense split under one of the three policies,
\* the balances calculate_balances returns sum to 0 within 0.01.
C3_ZeroSumBalances ==
    (\A e \in 1..MaxExpenses :
        expenses[e].status = "approved" => expenses[e].split_type \in Policies)
    => Abs(SumBalances(calculate_balances(expenses, payments))) <= TOLERANCE

\* C4: split sum invariant.  For every expense create_expense stores under
\* one of the three policies, the amounts of the stored split records sum to
\* the expense amount within 0.01.
C4_SplitSumInvariant ==
    \A e \in 1..MaxExpenses :
        (CreateReturned /\ expenses[e].status # "none"
            /\ expenses[e].split_type \in Policies)
        => Abs(SumAmounts(expenses[e].splits) - expenses[e].amount) <= TOLERANCE

\* C5 as stated: for a mapping with n non-zero balances optimize_settlements
\* returns at most n - 1 suggestions.
C5_AtMostNMinusOne ==
    opt_pc = "done" => Len(match.settlements) <= NonZeroCount(balances_arg) - 1

\* C5 amended: for a mapping with n >= 1 non-zero balances
\* optimize_settlements returns at most n - 1 suggestions, and for a mapping
\* without a non-zero balance it returns none.
C5_AtMostNMinusOneFromOne ==
    opt_pc = "done" =>
        IF NonZeroCount(balances_arg) >= 1
        THEN Len(match.settlements) <= NonZeroCount(balances_arg) - 1
        ELSE Len(match.settlements) = 0

\* The bound of C5 is attained: three non-zero balances, two suggestions.
C5_Witness ==
    /\ opt_pc = "done"
    /\ NonZeroCount(balances_arg) = 3
    /\ Len(match.settlements) = 2

\* C6: an edit leaves the expense with the split set the calculator generates
\* for its current amount and policy.  Stated for the equal policy, where the
\* calculator needs nothing but the amount and the members: a step that
\* changes the amount of an expense (only update_expense does) leaves it with
\* the stored equal split of the new amount over the current members.
C6_EditRecomputesSplits ==
    [][\A e \in 1..MaxExpenses :
          (/\ expenses[e].status # "none"
           /\ expenses'[e].status # "none"
           /\ expenses'[e].amount # expenses[e].amount
           /\ expenses'[e].split_type = "equal")
          => \E tie_up \in BOOLEAN :
                expenses'[e].splits =
                    StoredSplits(EqualSplits(expenses'[e].amount, member_ids), tie_up)]_vars

\* C7: an equal split over an empty member list fails with the ValueError
\* that the other split validation failures raise.
C7_NoMembersInvalidSplit ==
    (CalcReturned /\ req.split_type = "equal" /\ req.member_ids = <<>>)
        => ret.value.raised = "ValueError"

\* C8: an unequal split over (user_id, percentage) pairs.  When the
\* percentages do not sum to 100 within 0.01, calculate_splits raises
\* ValueError and create_expense answers 400 with nothing stored; when they
\* do, calculate_splits returns one split per pair, for the pair's user, with
\* amount = total * percentage / 100.
C8_UnequalSplit ==
    /\ (CalcReturned /\ req.split_type = "unequal" /\ HasPairs(req.split_data, "percentage"))
       => LET pairs == req.split_data.value
              out == ret.value
          IN IF Abs(SumKey(pairs, "percentage") - HUNDRED) > TOLERANCE
             THEN out.raised = "ValueError"
             ELSE /\ out.raised = ""
                  /\ Len(out.splits) = Len(pairs)
                  /\ \A k \in 1..Len(pairs) :
                        /\ out.splits[k].user_id = pairs[k].user_id
                        /\ SameValue(out.splits[k].amount,
                                     Ratio(req.total_amount * pairs[k].percentage.value,
                                           HUNDRED))
    /\ (/\ CreateReachedSplits
        /\ GetOr(req.body.split_type, "equal") = "unequal"
        /\ HasPairs(req.body.splits, "percentage")
        /\ Abs(SumKey(req.body.splits.value, "percentage") - HUNDRED) > TOLERANCE)
       => resp = Response(400, "ValueError") /\ NothingStored

\* C8 happens: 50 % and 49.99 % of 200.00 are accepted and split in two.
C8_Witness ==
    /\ CalcReturned
    /\ req.split_type = "unequal"
    /\ req.total_amount = 20000
    /\ req.split_data = Given(<<Pct(1, 5000), Pct(2, 4999)>>)
    /\ ret.value.raised = ""
    /\ Len(ret.value.splits) = 2

\* C9: a custom split over (user_id, amount) pairs.  When the amounts do not
\* sum to the total within 0.01, calculate_splits raises ValueError and
\* create_expense answers 400 with nothing stored; when they do,
\* calculate_splits returns one split per pair, for the pair's user, with
\* exactly the given amount.
C9_CustomSplit ==
    /\ (CalcReturned /\ req.split_type = "custom" /\ HasPairs(req.split_data, "amount"))
       => LET pairs == req.split_data.value
              out == ret.value
          IN IF Abs(SumKey(pairs, "amount") - req.total_amount) > TOLERANCE
             THEN out.raised = "ValueError"
             ELSE /\ out.raised = ""
                  /\ Len(out.splits) = Len(pairs)
                  /\ \A k \in 1..Len(pairs) :
                        /\ out.splits[k].user_id = pairs[k].user_id
                        /\ SameValue(out.splits[k].amount, Ratio(pairs[k].amount.value, 1))
    /\ (/\ CreateReachedSplits
        /\ GetOr(req.body.split_type, "equal") = "custom"
        /\ HasPairs(req.body.splits, "amount")
        /\ Abs(SumKey(req.body.splits.value, "amount") - req.amount) > TOLERANCE)
       => resp = Response(400, "ValueError") /\ NothingStored

\* C10: an equal split of amount A.  calculate_splits returns one split per
\* member id it is given, in order, each with amount A / n and percentage
\* 100 / n; create_expense gives it the current members of the group, so the
\* expense it stores has exactly one split record per member.
C10_EqualSplit ==
    /\ (CalcReturned /\ req.split_type = "equal" /\ req.member_ids # <<>>)
       => LET n == Len(req.member_ids)
              out == ret.value
          IN /\ out.raised = ""
             /\ Len(out.splits) = n
             /\ \A k \in 1..n :
                   /\ out.splits[k].user_id = req.member_ids[k]
                   /\ SameValue(out.splits[k].amount, Ratio(req.total_amount, n))
                   /\ SameValue(out.splits[k].percentage, Ratio(HUNDRED, n))
    /\ (CreateReachedSplits /\ GetOr(req.body.split_type, "equal") = "equal")
       => /\ resp.status = 201
          /\ Len(expenses[1].splits) = Cardinality({u \in Users : members[u] # "none"})
          /\ \A u \in Users :
                members[u] # "none" <=>
                    \E k \in 1..Len(expenses[1].splits) : expenses[1].splits[k].user_id = u

\* C10 happens: 200.00 split equally over three members.
C10_Witness ==
    /\ CalcReturned
    /\ req.split_type = "equal"
    /\ req.total_amount = 20000
    /\ Len(req.member_ids) = 3
    /\ ret.value.raised = ""
    /\ Len(ret.value.splits) = 3

\* The balance of a user in a mapping, 0 when the mapping has no such key.
BalanceOf(d, u) ==
    IF HasKey(d, u) THEN d[CHOOSE k \in 1..Len(d) : d[k].user_id = u].balance ELSE 0

RECURSIVE SplitShare(_, _)
SplitShare(splits, u) ==
    IF splits = <<>> THEN 0
    ELSE (IF Head(splits).user_id = u THEN Head(splits).amount ELSE 0)
         + SplitShare(Tail(splits), u)

\* What an expense adds to the balance of a user: +amount for the payer,
\* -split.amount for a split user.
ExpenseDelta(expense, u) ==
    (IF expense.paid_by_id = u THEN expense.amount ELSE 0) - SplitShare(expense.splits, u)

PaymentDelta(payment, u) ==
    (IF payment.payer_id = u THEN payment.amount ELSE 0)
        - (IF payment.payee_id = u THEN payment.amount ELSE 0)

\* C12: only completed payments participate in balances.  A step that
\* changes only payments that are not completed before or after it leaves
\* the balances unchanged, aggregated and returned; a step that completes a
\* payment of amount x changes the aggregated (pre-drop) balance of every
\* user by exactly +x if the user is its payer and -x if the user is its
\* payee, and by nothing otherwise.
C12_OnlyCompletedPaymentsCount ==
    [][/\ (\A p \in 1..MaxPayments :
              payments'[p] # payments[p] =>
                  payments[p].status # "completed" /\ payments'[p].status # "completed")
          => /\ aggregate_balances(expenses', payments') = aggregate_balances(expenses, payments)
             /\ calculate_balances(expenses', payments') = calculate_balances(expenses, payments)
       /\ \A p \in 1..MaxPayments :
             (payments[p].status \in {"pending", "failed"} /\ payments'[p].status = "completed")
             => \A u \in Users :
                   BalanceOf(aggregate_balances(expenses', payments'), u) =
                       BalanceOf(aggregate_balances(expenses, payments), u)
                           + PaymentDelta(payments'[p], u)]_vars

\* C12 happens: one payment is completed and in the balances while another
\* one, pending or failed, is not.
C12_Witness ==
    /\ payments[1].status = "completed"
    /\ payments[1].payer_id # payments[1].payee_id
    /\ payments[2].status \in {"pending", "failed"}
    /\ BalanceOf(aggregate_balances(expenses, payments), payments[1].payer_id)
           = payments[1].amount

\* C13: the mapping calculate_balances returns holds a user, with the
\* aggregated balance, exactly when the absolute value of the user's
\* aggregated balance is strictly greater than 0.01; a user whose
\* aggregated balance is exactly 0.01 or -0.01 is dropped.
C13_DropWithinTolerance ==
    LET aggregated == aggregate_balances(expenses, payments)
        returned == calculate_balances(expenses, payments)
    IN \A u \in Users :
          /\ HasKey(returned, u) <=> Abs(BalanceOf(aggregated, u)) > TOLERANCE
          /\ HasKey(returned, u) => BalanceOf(returned, u) = BalanceOf(aggregated, u)
          /\ Abs(BalanceOf(aggregated, u)) = TOLERANCE => ~HasKey(returned, u)

\* C13 happens: a user at exactly 0.01 is dropped while a user at -0.02 is
\* kept.
C13_Witness ==
    LET aggregated == aggregate_balances(expenses, payments)
        returned == calculate_balances(expenses, payments)
    IN /\ \E u \in Users : BalanceOf(aggregated, u) = TOLERANCE /\ ~HasKey(returned, u)
       /\ \E u \in Users : BalanceOf(aggregated, u) = -(TOLERANCE + 1) /\ HasKey(returned, u)

\* The place of a user in the iteration order of a balance mapping.
PositionOf(d, u) == CHOOSE k \in 1..Len(d) : d[k].user_id = u

\* u is paired before v: its balance is larger in magnitude, or equal and u
\* comes first in the iteration order of the mapping.
PairedBefore(d, u, v) ==
    \/ Abs(BalanceOf(d, u)) > Abs(BalanceOf(d, v))
    \/ /\ Abs(BalanceOf(d, u)) = Abs(BalanceOf(d, v))
       /\ PositionOf(d, u) < PositionOf(d, v)

\* C14: the suggestions come in descending-magnitude pairing order.  The
\* first suggestion pairs the debtor of the largest debt with the creditor
\* of the largest credit, each the first such in the iteration order of the
\* mapping; a payer (payee) never reappears after another one has followed
\* it; and payers (payees) appear by descending magnitude of their balance,
\* those of equal magnitude in the iteration order of the mapping.
C14_DescendingPairingOrder ==
    opt_pc = "done" =>
        LET d == balances_arg
            S == match.settlements
        IN /\ S # <<>> =>
                /\ BalanceOf(d, S[1].payer_id) < 0
                /\ BalanceOf(d, S[1].payee_id) > 0
                /\ \A k \in 1..Len(d) :
                      /\ (d[k].balance < 0 /\ d[k].user_id # S[1].payer_id)
                            => PairedBefore(d, S[1].payer_id, d[k].user_id)
                      /\ (d[k].balance > 0 /\ d[k].user_id # S[1].payee_id)
                            => PairedBefore(d, S[1].payee_id, d[k].user_id)
                /\ S[1].amount = Min(Abs(BalanceOf(d, S[1].payer_id)),
                                     BalanceOf(d, S[1].payee_id))
           /\ \A a, b \in 1..Len(S) :
                 a < b =>
                    /\ S[a].payer_id # S[b].payer_id
                          => PairedBefore(d, S[a].payer_id, S[b].payer_id)
                    /\ S[a].payee_id # S[b].payee_id
                          => PairedBefore(d, S[a].payee_id, S[b].payee_id)
           /\ \A a, b, c \in 1..Len(S) :
                 (a < b /\ b < c) =>
                    /\ S[a].payer_id = S[c].payer_id => S[b].payer_id = S[a].payer_id
                    /\ S[a].payee_id = S[c].payee_id => S[b].payee_id = S[a].payee_id

\* C14 happens: two debtors of equal magnitude are both paired, the one with
\* the larger user id first because it comes first in the mapping.
C14_Witness ==
    /\ opt_pc = "done"
    /\ \E a, b \in 1..Len(match.settlements) :
          /\ a < b
          /\ match.settlements[a].payer_id > match.settlements[b].payer_id
          /\ BalanceOf(balances_arg, match.settlements[a].payer_id)
                = BalanceOf(balances_arg, match.settlements[b].payer_id)

NoDebtor(d) == \A k \in 1..Len(d) : d[k].balance >= 0
NoCreditor(d) == \A k \in 1..Len(d) : d[k].balance <= 0

\* C15: optimize_settlements returns the empty list whenever its input has
\* no debtor or no creditor (an empty mapping, all-zero balances, only
\* positive balances, only negative balances, a single user), and the loop
\* body never runs for such an input.
C15_NoCounterpartyNoSuggestion ==
    (NoDebtor(balances_arg) \/ NoCreditor(balances_arg) \/ Len(balances_arg) <= 1)
        => /\ match # NoMatch => match.settlements = <<>> /\ ~MatchRunning(match)
           /\ opt_pc = "done" => optimize_settlements(balances_arg) = match.settlements

\* C15 happens: the call has returned for a mapping of several users that
\* holds zero and positive balances only.
C15_Witness ==
    /\ opt_pc = "done"
    /\ Len(balances_arg) >= 2
    /\ NoDebtor(balances_arg)
    /\ \E k \in 1..Len(balances_arg) : balances_arg[k].balance = 0
    /\ \E k \in 1..Len(balances_arg) : balances_arg[k].balance > 0
    /\ match.settlements = <<>>

DebtsReturned == req # NoRequest /\ req.fn = "get_user_debts" /\ ret.returned

\* The entries of the plan a user pays, and those a user receives.
PlanPaidBy(plan_list, u) == SelectSeq(plan_list, LAMBDA s : s.payer_id = u)
PlanPaidTo(plan_list, u) == SelectSeq(plan_list, LAMBDA s : s.payee_id = u)

\* C16: get_user_debts partitions the settlement plan of the group for a
\* user.  'owes' holds exactly the plan entries whose payer is the user,
\* with the payee as counterparty, 'owed' exactly those whose payee is the
\* user, with the payer as counterparty, both in plan order with unchanged
\* amounts; net_balance is the balance of the user in calculate_balances,
\* and 0 when the user was dropped from it.
C16_DebtsPartitionPlan ==
    DebtsReturned =>
        LET u == req.user_id
            balances == calculate_balances(expenses, payments)
            paid == PlanPaidBy(optimize_settlements(balances), u)
            received == PlanPaidTo(optimize_settlements(balances), u)
            debts == ret.first.debts
        IN /\ Len(debts.owes) = Len(paid)
           /\ \A k \in 1..Len(paid) :
                 /\ debts.owes[k].user_id = paid[k].payee_id
                 /\ debts.owes[k].amount = paid[k].amount
           /\ Len(debts.owed) = Len(received)
           /\ \A k \in 1..Len(received) :
                 /\ debts.owed[k].user_id = received[k].payer_id
                 /\ debts.owed[k].amount = received[k].amount
           /\ HasKey(balances, u) => debts.net_balance = BalanceOf(balances, u)
           /\ ~HasKey(balances, u) => debts.net_balance = 0

\* C16 happens: the user owes one counterparty in a plan that also holds an
\* entry the user has no part in, and has a non-zero net balance.
C16_Witness ==
    /\ DebtsReturned
    /\ Len(ret.first.debts.owes) = 1
    /\ ret.first.debts.owed = <<>>
    /\ Len(ret.first.settlements) = 2
    /\ ret.first.debts.net_balance < 0

CommittedSplitSets(e) ==
    {expenses[e].splits}
    \cup (IF session # NoSession /\ session.expense_id = e /\ session.fn = "update_expense"
          THEN {session.old_splits} ELSE {})

C19_InitialStatusByRole ==
    (CreateReturned /\ resp.status = 201) =>
        LET expense == expenses[NextId(expenses) - 1]
        IN /\ expense.created_by_id = req.user_id
           /\ expense.status = "approved" <=> members[req.user_id] = "admin"
           /\ members[req.user_id] # "admin" =>
                 /\ expense.status = "pending"
                 /\ aggregate_balances(expenses, payments) = <<>>
                 /\ calculate_balances(expenses, payments) = <<>>

\* C19 happens: a member who is not an admin has created an expense with
\* splits, and it is pending.
C19_Witness ==
    /\ CreateReturned
    /\ resp.status = 201
    /\ members[req.user_id] = "member"
    /\ expenses[1].status = "pending"
    /\ expenses[1].amount > 0
    /\ expenses[1].splits # <<>>

\* An approve or a reject request on expense e by user u.
DecisionRequest(u, e) == approve_expense(u, e) \/ reject_expense(u, e)

\* C20: the status of an expense changes only from 'pending' to 'approved'
\* or from 'pending' to 'rejected', and only in an approve or reject request
\* by an admin of the group; such a request by a user who is not an admin,
\* or on an expense that is already approved or rejected, is refused with
\* 403 or 400 and changes no expense, so 'approved' and 'rejected' are
\* terminal.
C20_StatusOnlyLeavesPending ==
    [][\A e \in 1..MaxExpenses :
          /\ (/\ expenses[e].status # "none"
              /\ expenses'[e].status # "none"
              /\ expenses'[e].status # expenses[e].status)
             => /\ expenses[e].status = "pending"
                /\ expenses'[e].status \in {"approved", "rejected"}
                /\ \E u \in Users : members[u] = "admin" /\ DecisionRequest(u, e)
          /\ \A u \in Users :
                (/\ DecisionRequest(u, e)
                 /\ expenses[e].status # "none"
                 /\ members[u] # "admin" \/ expenses[e].status # "pending")
                => /\ expenses' = expenses
                   /\ resp'.status = IF members[u] # "admin" THEN 403 ELSE 400]_vars

\* C20 happens: an admin's request on a rejected expense has been refused.
C20_Witness ==
    /\ expenses[1].status = "rejected"
    /\ resp.status = 400

\* C21: a payment recorded through create_payment starts 'pending';
\* approve_payment moves it to 'completed' and reject_payment to 'failed'
\* when the requester is an admin of the group and the payment is pending,
\* and only then: any other approve or reject request on a payment is
\* refused with 403 or 400 and leaves every payment unchanged.
C21_PaymentDecision ==
    [][/\ \A u \in Users, payee \in Users, amount \in PaymentAmounts :
             (create_payment(u, payee, amount) /\ resp'.status = 201)
             => /\ payments[NextId(payments)].status = "none"
                /\ payments' = [payments EXCEPT ![NextId(payments)] =
                                   [status |-> "pending", payer_id |-> u,
                                    payee_id |-> payee, amount |-> amount]]
       /\ \A u \in Users, p \in 1..MaxPayments :
             payments[p].status # "none" =>
                /\ approve_payment(u, p) =>
                      IF members[u] = "admin" /\ payments[p].status = "pending"
                      THEN payments' = [payments EXCEPT ![p].status = "completed"]
                      ELSE payments' = payments /\ resp'.status \in {400, 403}
                /\ reject_payment(u, p) =>
                      IF members[u] = "admin" /\ payments[p].status = "pending"
                      THEN payments' = [payments EXCEPT ![p].status = "failed"]
                      ELSE payments' = payments /\ resp'.status \in {400, 403}]_vars

\* C21 happens: of two payments recorded through create_payment one has
\* been completed by the admin and the other is still pending after a
\* refused request.
C21_Witness ==
    /\ payments[1].status = "completed"
    /\ payments[1].payer_id # payments[1].payee_id
    /\ members[payments[1].payer_id] # "none"
    /\ payments[2].status = "pending"
    /\ resp.status = 403

\* C22: a user cannot pay themselves.  No stored payment has a payer equal
\* to its payee, whichever route created it (POST /payments or POST
\* /payments/vnpay-create).
C22_NoSelfPayment ==
    \A p \in 1..MaxPayments :
        payments[p].status # "none" => payments[p].payer_id # payments[p].payee_id

\* C23: a group that has an admin always keeps at least one admin, after
\* any sequence of remove_member, update_member_role and leave_group
\* requests, requests of two admins that interleave included.
C23_AlwaysAnAdmin == \E u \in Users : members[u] = "admin"

\* C24: in the greedy walk a cursor advances exactly when the remaining
\* amount of the current party has dropped strictly below 0.01.  The
\* parties a cursor has passed have a remaining amount strictly below 0.01;
\* the others, the current one included, have at least 0.01 left, so a
\* party left with exactly 0.01 stays current.
C24_CursorAdvancesBelowTolerance ==
    opt_pc \in {"loop", "done"} =>
        /\ \A k \in 1..Len(match.debtors) :
              IF k <= match.i THEN match.debtors[k].amount < TOLERANCE
              ELSE match.debtors[k].amount >= TOLERANCE
        /\ \A k \in 1..Len(match.creditors) :
              IF k <= match.j THEN match.creditors[k].amount < TOLERANCE
              ELSE match.creditors[k].amount >= TOLERANCE

\* C25: every approved expense in the ledger has a non-empty split set that
\* sums to its amount within 0.01, whichever path created it: create_expense
\* with any split_type value, or the recurring-expense scheduler with any
\* template split_type.
C25_ApprovedExpenseHasSplits ==
    \A e \in 1..MaxExpenses :
        expenses[e].status = "approved" =>
            /\ expenses[e].splits # <<>>
            /\ Abs(SumAmounts(expenses[e].splits) - expenses[e].amount) <= TOLERANCE

\* C26: once the status of a payment is 'completed' or 'failed' it never
\* changes again and the payment is never deleted, under any sequence of
\* approve, reject, delete, create-payment-url and gateway return requests.
C26_DecidedPaymentIsFinal ==
    [][\A p \in 1..MaxPayments :
          payments[p].status \in {"completed", "failed"} => payments'[p] = payments[p]]_vars

\* C27: an expense edit whose re-split fails validation (calculate_splits
\* raises ValueError) is reported as a client-input error, a 4xx response,
\* and leaves the expense unchanged: amount, split_type and stored splits.
C27_FailedResplitIsClientError ==
    [][(resp'.error = "ValueError" /\ RequestUpdateExpense)
       => /\ resp'.status \in 400..499
          /\ expenses' = expenses]_vars

\* C28: every suggestion optimize_settlements has emitted, for any input
\* mapping, has a strictly positive amount, a payer whose input balance is
\* negative and a payee whose input balance is positive; hence payer and
\* payee differ and no user is payer in one suggestion and payee in another.
C28_SuggestionsWellFormed ==
    opt_pc \in {"loop", "done"} =>
        LET S == match.settlements
        IN /\ \A k \in 1..Len(S) :
                 /\ S[k].amount > 0
                 /\ HasKey(balances_arg, S[k].payer_id)
                 /\ BalanceOf(balances_arg, S[k].payer_id) < 0
                 /\ HasKey(balances_arg, S[k].payee_id)
                 /\ BalanceOf(balances_arg, S[k].payee_id) > 0
                 /\ S[k].payer_id # S[k].payee_id
           /\ \A a, b \in 1..Len(S) : S[a].payer_id # S[b].payee_id
           /\ opt_pc = "done" => optimize_settlements(balances_arg) = S

\* C28 happens: the call has returned a suggestion for a mapping that also
\* holds a zero balance, and that mapping does not sum to zero.
C28_Witness ==
    /\ opt_pc = "done"
    /\ Len(match.settlements) = 1
    /\ \E k \in 1..Len(balances_arg) : balances_arg[k].balance = 0
    /\ SumBalances(balances_arg) # 0

\* The total of the suggestions a user pays, and of those a user receives.
TotalPaidBy(S, u) == SumAmounts(SelectSeq(S, LAMBDA s : s.payer_id = u))
TotalPaidTo(S, u) == SumAmounts(SelectSeq(S, LAMBDA s : s.payee_id = u))

\* C29: optimize_settlements never over-settles, even for a mapping that
\* does not sum to zero: for every user the total of the suggestions in
\* which the user is payer is at most the absolute value of the user's
\* negative balance (nothing for a user who is not a debtor), and the total
\* in which the user is payee is at most the user's positive balance.
C29_NeverOverSettles ==
    opt_pc \in {"loop", "done"} =>
        \A u \in Users :
            LET balance == BalanceOf(balances_arg, u)
            IN /\ TotalPaidBy(match.settlements, u) <= (IF balance < 0 THEN -balance ELSE 0)
               /\ TotalPaidTo(match.settlements, u) <= (IF balance > 0 THEN balance ELSE 0)

\* C29 happens: for a mapping that owes more than it is owed the call has
\* returned suggestions that settle a debtor in part and a creditor in full.
C29_Witness ==
    /\ opt_pc = "done"
    /\ SumBalances(balances_arg) < 0
    /\ \E u, v \in Users :
          /\ BalanceOf(balances_arg, u) > 0
          /\ TotalPaidTo(match.settlements, u) = BalanceOf(balances_arg, u)
          /\ BalanceOf(balances_arg, v) < 0
          /\ TotalPaidBy(match.settlements, v) > 0
          /\ TotalPaidBy(match.settlements, v) < -BalanceOf(balances_arg, v)

\* C30: optimize_settlements terminates on every finite balance mapping.
\* Each iteration of the matching loop advances at least one of the two
\* cursors and emits one suggestion, so the loop runs at most (number of
\* debtors + number of creditors) times, and the call returns.
C30_LoopTerminates ==
    /\ [][(opt_pc = "loop" /\ match' # match)
            => /\ match'.i + match'.j > match.i + match.j
               /\ Len(match'.settlements) = Len(match.settlements) + 1]_vars
    /\ [](Len(match.settlements) <= Len(match.debtors) + Len(match.creditors))
    /\ <>(opt_pc = "done")

\* C30 happens: the call has returned after two iterations, one that moved
\* one cursor and one that moved both.
C30_Witness ==
    /\ opt_pc = "done"
    /\ Len(match.settlements) = 2
    /\ match.i + match.j = 3

====
